---- MODULE Spec2Model ----
(***************************************************************************)
(* Indexer.ForEachBlock (indexer/indexer.go): the bounded-parallel block   *)
(* fetch / retry / dispatch engine of valis, as a state machine.           *)
(*                                                                         *)
(* The supervising goroutine runs the launch loop (sem send, eg.Go), then  *)
(* eg.Wait and the recursive call.  Every launched goroutine runs retry.Do *)
(* around the block query, then either the failure branch (mutex, append,  *)
(* deferred mutex call, slot release, return err) or the action loop (one  *)
(* Execute per action, slot release, return nil).                          *)
(*                                                                         *)
(* The start command (cmd/start.go, RunE) is the program's caller of       *)
(* ForEachBlock: it validates the concurrent-blocks flag, builds the       *)
(* height range and the action list from the configured names, and runs    *)
(* the engine.                                                             *)
(***************************************************************************)
EXTENDS Integers, Sequences, FiniteSets, TLC

\* ---- bounds of the model
\* longest heights list handed to ForEachBlock
MaxLen == 2
\* heights are drawn from 1..MaxHeight
MaxHeight == 2
\* largest concurrentBlocks
MaxConc == 2
\* longest actions list
MaxActions == 2
\* cap on the depth of the recursive call
MaxPass == 2
\* most Execute calls of one pass: Len(blocks) * Len(actions)
MaxDispatch == 4
\* most transactions in the block an action is executed on
MaxTxs == 3
\* most entries of Config.ChainConfigs
MaxChains == 2

\* ---- program constants
\* retry.Attempts(RtyAttNum)
RtyAttNum == 5

NoErr == "nil"
FetchErr == "fetchErr"      \* the last error of the block query
CtxErr == "ctxErr"          \* context.Canceled, from egCtx.Err()
ExecErr == "execErr"        \* an error returned by BlockAction.Execute

\* the errors RunE returns before it calls ForEachBlock
FlagErr == "invalidFlagValue"       \* --concurrent-blocks below 1
SetupErr == "setupErr"              \* chain config, client, database or debug listener
LatestHeightErr == "latestHeightErr" \* QueryLatestHeight failed
NoActionsErr == "noBlockActions"    \* no configured name resolved

\* ibc.BlockActionName, the one name GetBlockActionByName knows
BlockActionName == "ics20_transfers"
\* the name of the DAODAO action, which GetBlockActionByName does not know
UnregisteredName == "daodao"

VARIABLES
  blocks,            \* the heights of the current pass
  actions,           \* the ordered action list
  concurrentBlocks,  \* capacity of sem
  ctxDone,           \* the caller's ctx is cancelled
  egDone,            \* egCtx is cancelled (ctx, first worker error, or Wait returned)
  egErr,             \* the first error a worker returned to the errgroup
  mutex,             \* 0 when unlocked, else the worker that locked it
  failedBlocks,      \* the Failure Set of the current pass
  sem,               \* number of tokens in the sem channel
  mainPc,            \* position of the supervising goroutine
  idx,               \* number of workers launched in this pass
  pass,              \* depth of the recursion, 1 for the caller's invocation
  result,            \* the value ForEachBlock returned
  pc,                \* position of every worker
  n,                 \* retry.Do's attempt counter of every worker
  err,               \* the error retry.Do returned to every worker
  block,             \* the block every worker fetched (0: none)
  ai,                \* index of the next action of every worker
  fetches,           \* history: block queries made by every worker's retry.Do call,
                     \* until it returns nil
  twiceThenOk,       \* history: some block query succeeded after failing exactly twice
  execLog,           \* history: the actions every worker called Execute on, in order
  execErrAt,         \* history: index of the first action whose Execute failed in
                     \* every worker's action loop (0: none), until the worker returns
  cancelInfo,        \* history: where the run was when ctx was cancelled ("none":
                     \* not cancelled): "fetching" with a height not yet fetched,
                     \* "executing" with every height fetched and one not yet
                     \* dispatched to every action, "late" with all dispatched
  startPc,           \* position of the start command's RunE ("direct": ForEachBlock
                     \* is called by another caller, RunE does not run)
  flagConcurrentBlocks, \* value of the --concurrent-blocks flag
  configActions,     \* a.Config.Actions, the configured action names
  beginBlock,        \* RunE's beginBlock
  endBlock,          \* RunE's endBlock
  runBlocks,         \* RunE's blocks
  runActions,        \* RunE's actions, each by the name it was resolved from
  runErr,            \* the error RunE returned
  migrateCalls,      \* history: number of BlockAction.MigrateSchema calls made
  actPc,             \* position of the action lookup and of IndexIBCTransfers
                     \* ("idle": neither runs)
  lookupName,        \* the name GetBlockActionByName is called with
  lookupAction,      \* Name() of the action GetBlockActionByName returned
  lookupErr,         \* the error GetBlockActionByName returned
  txCount,           \* len(block.Block.Data.Txs)
  txLog,             \* history: what happened to every transaction visited
  dbTxs,             \* indexes of the transactions a Tx record was created for
  actCtxDone,        \* the ctx given to Execute is cancelled
  actResult,         \* the error Execute returned
  chainConfigs,      \* Config.ChainConfigs
  cfgOp,             \* the last method called on the Config ("idle": none is)
  cfgArg,            \* its argument: a chain config, or a chain ID
  cfgErr,            \* the error it returned
  cfgRet             \* the chain config GetChainConfig returned

vars == <<blocks, actions, concurrentBlocks, ctxDone, egDone, egErr, mutex,
          failedBlocks, sem, mainPc, idx, pass, result, pc, n, err, block, ai,
          fetches, execLog, execErrAt, twiceThenOk, cancelInfo,
          startPc, flagConcurrentBlocks, configActions, beginBlock, endBlock,
          runBlocks, runActions, runErr, migrateCalls,
          actPc, lookupName, lookupAction, lookupErr, txCount, txLog, dbTxs,
          actCtxDone, actResult,
          chainConfigs, cfgOp, cfgArg, cfgErr, cfgRet>>

\* the nil *lens.ChainClientConfig
NilChain == [ChainID |-> "nil", RPCAddr |-> "nil"]

cfg == <<chainConfigs, cfgOp, cfgArg, cfgErr, cfgRet>>

\* no method of the Config is called
CfgIdle ==
  /\ chainConfigs = <<>>
  /\ cfgOp = "idle"
  /\ cfgArg = "none"
  /\ cfgErr = "none"
  /\ cfgRet = NilChain

act == <<actPc, lookupName, lookupAction, lookupErr, txCount, txLog, dbTxs,
         actCtxDone, actResult>>

\* no action is looked up or executed on its own
ActIdle ==
  /\ actPc = "idle"
  /\ lookupName = ""
  /\ lookupAction = "nil"
  /\ lookupErr = "none"
  /\ txCount = 0
  /\ txLog = <<>>
  /\ dbTxs = <<>>
  /\ actCtxDone = FALSE
  /\ actResult = "none"

start == <<startPc, flagConcurrentBlocks, configActions, beginBlock, endBlock,
           runBlocks, runActions, runErr, migrateCalls>>
config == <<actions, concurrentBlocks>>
worker == <<pc, n, err, block, ai, fetches, execLog, execErrAt>>

RECURSIVE SeqsUpTo(_, _)
SeqsUpTo(S, k) ==
  IF k = 0 THEN {<<>>}
  ELSE LET shorter == SeqsUpTo(S, k - 1)
       IN shorter \cup {Append(s, x) : s \in {t \in shorter : Len(t) = k - 1}, x \in S}

\* ForEachBlock only copies heights (into the block query and failedBlocks) and
\* never compares them, so a heights list is taken up to a renaming of its
\* heights: each height is at most one more than the largest before it.
FirstUse(s) ==
  \A i \in 1..Len(s) : \A v \in 1..(s[i] - 1) : \E j \in 1..(i - 1) : s[j] = v

HeightLists == {s \in SeqsUpTo(1..MaxHeight, MaxLen) : FirstUse(s)}

\* a launch loop that starts one goroutine per distinct height only
WorkersDeduplicated ==
  {w \in 1..Len(blocks) : \A v \in 1..(w - 1) : blocks[v] # blocks[w]}

Workers == 1..Len(blocks)
NA == Len(actions)

\* The state of a pass before its launch loop starts (lines 56-61).
PassStart(hs) ==
  /\ blocks' = hs
  /\ mutex' = 0
  /\ failedBlocks' = <<>>
  /\ sem' = 0
  /\ egErr' = NoErr
  /\ idx' = 0
  /\ mainPc' = IF Len(hs) = 0 THEN "wait" ELSE "acquire"
  /\ pc' = [w \in 1..Len(hs) |-> "idle"]
  /\ n' = [w \in 1..Len(hs) |-> 0]
  /\ err' = [w \in 1..Len(hs) |-> NoErr]
  /\ block' = [w \in 1..Len(hs) |-> 0]
  /\ ai' = [w \in 1..Len(hs) |-> 1]
  /\ fetches' = [w \in 1..Len(hs) |-> 0]
  /\ execLog' = [w \in 1..Len(hs) |-> <<>>]
  /\ execErrAt' = [w \in 1..Len(hs) |-> 0]

Init ==
  /\ blocks \in HeightLists
  /\ actions \in {[k \in 1..m |-> k] : m \in 0..MaxActions}
  /\ Len(blocks) * Len(actions) <= MaxDispatch
  /\ concurrentBlocks \in 0..MaxConc
  /\ ctxDone = FALSE
  /\ egDone = FALSE
  /\ egErr = NoErr
  /\ mutex = 0
  /\ failedBlocks = <<>>
  /\ sem = 0
  /\ mainPc = IF Len(blocks) = 0 THEN "wait" ELSE "acquire"
  /\ idx = 0
  /\ pass = 1
  /\ result = "none"
  /\ pc = [w \in Workers |-> "idle"]
  /\ n = [w \in Workers |-> 0]
  /\ err = [w \in Workers |-> NoErr]
  /\ block = [w \in Workers |-> 0]
  /\ ai = [w \in Workers |-> 1]
  /\ fetches = [w \in Workers |-> 0]
  /\ execLog = [w \in Workers |-> <<>>]
  /\ execErrAt = [w \in Workers |-> 0]
  /\ twiceThenOk = FALSE
  /\ cancelInfo = "none"
  /\ startPc = "direct"
  /\ flagConcurrentBlocks = 0
  /\ configActions = <<>>
  /\ beginBlock = 0
  /\ endBlock = 0
  /\ runBlocks = <<>>
  /\ runActions = <<>>
  /\ runErr = "none"
  /\ migrateCalls = 0
  /\ ActIdle
  /\ CfgIdle

\* ---- the supervising goroutine

\* a send on sem that never blocks
SemFullNever == FALSE

\* a channel made with one slot too many
SemFullOffByOne == sem > concurrentBlocks

\* a launch loop that stops taking slots once the group's context is done
SemFullOrCancelled == sem >= concurrentBlocks \/ egDone

\* line 70: sem <- struct{}{} blocks while the channel holds concurrentBlocks tokens
SemFull == sem >= concurrentBlocks

Acquire ==
  /\ mainPc = "acquire"
  /\ ~SemFull
  /\ sem' = sem + 1
  /\ mainPc' = "go"
  /\ UNCHANGED <<cfg, act, start, blocks, config, ctxDone, egDone, egErr, mutex, failedBlocks,
                 idx, pass, result, worker, twiceThenOk, cancelInfo>>

\* line 72: eg.Go starts the goroutine of the next height
Go ==
  /\ mainPc = "go"
  /\ idx' = idx + 1
  /\ pc' = [pc EXCEPT ![idx + 1] = "retryDo"]
  /\ mainPc' = IF idx + 1 < Len(blocks) THEN "acquire" ELSE "wait"
  /\ UNCHANGED <<cfg, act, start, blocks, config, ctxDone, egDone, egErr, mutex, failedBlocks,
                 sem, pass, result, n, err, block, ai, fetches, execLog, execErrAt, twiceThenOk, cancelInfo>>

\* a Wait that joins only the goroutine launched first
FirstWorkerReturned == Workers # {} => pc[1] = "done"

\* a Wait that needs a goroutine to have returned
SomeWorkerReturned == Workers # {} /\ \A w \in Workers : pc[w] = "done"

\* line 116: eg.Wait blocks until every goroutine started with eg.Go returned
AllWorkersReturned == \A w \in Workers : pc[w] = "done"

\* lines 116-124: eg.Wait, then return the group's error, recurse on the
\* Failure Set, or return nil
Wait ==
  /\ mainPc = "wait"
  /\ AllWorkersReturned
  /\ IF egErr # NoErr
     THEN /\ result' = egErr
          /\ mainPc' = "returned"
          /\ egDone' = TRUE
          /\ UNCHANGED <<blocks, mutex, failedBlocks, sem, egErr, idx, pass, worker>>
     ELSE IF Len(failedBlocks) > 0
     THEN /\ pass < MaxPass
          /\ pass' = pass + 1
          /\ PassStart(failedBlocks)
          /\ egDone' = ctxDone
          /\ UNCHANGED result
     ELSE /\ result' = NoErr
          /\ mainPc' = "returned"
          /\ egDone' = TRUE
          /\ UNCHANGED <<blocks, mutex, failedBlocks, sem, egErr, idx, pass, worker>>
  /\ UNCHANGED <<cfg, act, start, config, ctxDone, twiceThenOk, cancelInfo>>

\* ---- a worker goroutine (lines 72-114)

\* a worker that goes on to the action loop when retry.Do returned an error
AfterRetryErrorRunActions == "exec"

\* line 87: retry.Do returned a non-nil error: the failure branch is entered
AfterRetryError == "lock"

\* retry.Do returns the context's error at once when the context is already done
RetryDo(w) ==
  /\ pc[w] = "retryDo"
  /\ IF egDone
     THEN /\ err' = [err EXCEPT ![w] = CtxErr]
          /\ pc' = [pc EXCEPT ![w] = AfterRetryError]
     ELSE /\ pc' = [pc EXCEPT ![w] = "attempt"]
          /\ UNCHANGED err
  /\ UNCHANGED <<cfg, act, start, blocks, config, ctxDone, egDone, egErr, mutex, failedBlocks, sem,
                 mainPc, idx, pass, result, n, block, ai, fetches, execLog, execErrAt, twiceThenOk, cancelInfo>>

\* a retry loop that allows one attempt more
LastAttemptOneMore(k) == k = RtyAttNum

\* retry.Do stops without a delay after the last of the RtyAttNum attempts
LastAttempt(k) == k = RtyAttNum - 1

\* a worker that releases its slot right after the fetch, skipping the actions
AfterFetchSkipActions == "releaseOk"

\* the position after the block query returned nil: the action loop, or past it
AfterFetch == IF NA = 0 THEN "releaseOk" ELSE "exec"

\* lines 77-79 inside retry.Do's loop: one block query, which succeeds or fails
Attempt(w) ==
  /\ pc[w] = "attempt"
  /\ \E ok \in BOOLEAN :
       IF ok
       THEN /\ block' = [block EXCEPT ![w] = blocks[w]]
            /\ pc' = [pc EXCEPT ![w] = AfterFetch]
            /\ n' = [n EXCEPT ![w] = 0]
            /\ fetches' = [fetches EXCEPT ![w] = 0]
            /\ twiceThenOk' = (twiceThenOk \/ fetches[w] = 2)
            /\ UNCHANGED err
       ELSE /\ IF LastAttempt(n[w])
               THEN /\ err' = [err EXCEPT ![w] = FetchErr]
                    /\ pc' = [pc EXCEPT ![w] = AfterRetryError]
               ELSE /\ pc' = [pc EXCEPT ![w] = "backoff"]
                    /\ UNCHANGED err
            /\ fetches' = [fetches EXCEPT ![w] = @ + 1]
            /\ UNCHANGED <<block, n, twiceThenOk>>
  /\ UNCHANGED <<cfg, act, start, blocks, config, ctxDone, egDone, egErr, mutex, failedBlocks, sem,
                 mainPc, idx, pass, result, ai, execLog, execErrAt, cancelInfo>>

\* a delay that is waited out whatever the context's state
TimerFiresAlways == TRUE

\* a goroutine blocked in retry.Do's select is woken by the first of the two
\* channels that becomes ready: the delay timer can fire only while the
\* context's Done channel is still open
TimerFires == ~egDone

\* retry.Do's select between the delay timer and the context's Done channel
Backoff(w) ==
  /\ pc[w] = "backoff"
  /\ \/ /\ TimerFires
        /\ n' = [n EXCEPT ![w] = @ + 1]
        /\ pc' = [pc EXCEPT ![w] = "attempt"]
        /\ UNCHANGED err
     \/ /\ egDone
        /\ err' = [err EXCEPT ![w] = CtxErr]
        /\ pc' = [pc EXCEPT ![w] = AfterRetryError]
        /\ UNCHANGED n
  /\ UNCHANGED <<cfg, act, start, blocks, config, ctxDone, egDone, egErr, mutex, failedBlocks, sem,
                 mainPc, idx, pass, result, block, ai, fetches, execLog, execErrAt, twiceThenOk, cancelInfo>>

\* a mutex its holder can lock again
DeferredMutexCallReentrant(w) ==
  /\ mutex = w
  /\ mutex' = w

\* a deferred mutex.Unlock() in place of the deferred mutex.Lock()
DeferredMutexUnlock(w) ==
  /\ mutex' = 0

\* line 91: the call the function literal defers, run when it exits
DeferredMutexCall(w) ==
  /\ mutex = 0
  /\ mutex' = w

\* a mutex.Lock that does not wait for the mutex to be free
MutexLockNoExclusion(w) ==
  /\ pc[w] \in {"lock", "deferLock"}
  /\ IF pc[w] = "lock"
     THEN /\ mutex' = w
          /\ pc' = [pc EXCEPT ![w] = "append"]
     ELSE /\ DeferredMutexCall(w)
          /\ pc' = [pc EXCEPT ![w] = "releaseErr"]
  /\ UNCHANGED <<cfg, act, start, blocks, config, ctxDone, egDone, egErr, failedBlocks, sem,
                 mainPc, idx, pass, result, n, err, block, ai, fetches, execLog,
                 execErrAt, twiceThenOk, cancelInfo>>

\* lines 90 and 91: the two calls of mutex.Lock on the failure branch; each
\* blocks while the mutex is locked
MutexLock(w) ==
  /\ pc[w] \in {"lock", "deferLock"}
  /\ IF pc[w] = "lock"
     THEN /\ mutex = 0
          /\ mutex' = w
          /\ pc' = [pc EXCEPT ![w] = "append"]
     ELSE /\ DeferredMutexCall(w)
          /\ pc' = [pc EXCEPT ![w] = "releaseErr"]
  /\ UNCHANGED <<cfg, act, start, blocks, config, ctxDone, egDone, egErr, failedBlocks, sem,
                 mainPc, idx, pass, result, n, err, block, ai, fetches, execLog,
                 execErrAt, twiceThenOk, cancelInfo>>

\* a failure branch that appends, unlocks and returns nil
AppendFailedReturnNil(w) ==
  /\ pc[w] = "append"
  /\ failedBlocks' = Append(failedBlocks, blocks[w])
  /\ pc' = [pc EXCEPT ![w] = "done"]
  /\ mutex' = 0
  /\ UNCHANGED <<cfg, act, start, blocks, config, ctxDone, egDone, egErr, sem,
                 mainPc, idx, pass, result, n, err, block, ai, fetches, execLog,
                 execErrAt, twiceThenOk, cancelInfo>>

\* line 92: failedBlocks = append(failedBlocks, h)
AppendFailed(w) ==
  /\ pc[w] = "append"
  /\ failedBlocks' = Append(failedBlocks, blocks[w])
  /\ pc' = [pc EXCEPT ![w] = "deferLock"]
  /\ UNCHANGED <<cfg, act, start, blocks, config, ctxDone, egDone, egErr, mutex, sem,
                 mainPc, idx, pass, result, n, err, block, ai, fetches, execLog,
                 execErrAt, twiceThenOk, cancelInfo>>

\* a loop that walks the actions from the last to the first
ActionAtReversed(k) == actions[NA - k + 1]

\* the action the k-th iteration of the loop at line 100 executes
ActionAt(k) == actions[k]

\* a loop that treats an Execute error as a failure of the height
AfterExecuteFailHeight(k, r) ==
  IF r = ExecErr THEN "lock" ELSE IF k < NA THEN "exec" ELSE "releaseOk"

\* a loop that fetches the block again when Execute fails
AfterExecuteRefetch(k, r) ==
  IF r = ExecErr THEN "attempt" ELSE IF k < NA THEN "exec" ELSE "releaseOk"

\* a loop that stops at the first Execute error
AfterExecuteStopOnError(k, r) ==
  IF r = ExecErr THEN "releaseOk" ELSE IF k < NA THEN "exec" ELSE "releaseOk"

\* the position after Execute of the k-th action returned r (lines 100-110)
AfterExecute(k, r) == IF k < NA THEN "exec" ELSE "releaseOk"

\* line 101: a.Execute(egCtx, i, block), whose error is only logged
Execute(w) ==
  /\ pc[w] = "exec"
  /\ \E r \in {NoErr, ExecErr} :
       /\ execErrAt' = [execErrAt EXCEPT ![w] = IF r = ExecErr /\ @ = 0 THEN ai[w] ELSE @]
       /\ pc' = [pc EXCEPT ![w] = AfterExecute(ai[w], r)]
  /\ execLog' = [execLog EXCEPT ![w] = Append(@, ActionAt(ai[w]))]
  /\ ai' = [ai EXCEPT ![w] = @ + 1]
  /\ UNCHANGED <<cfg, act, start, blocks, config, ctxDone, egDone, egErr, mutex, failedBlocks, sem,
                 mainPc, idx, pass, result, n, err, block, fetches, twiceThenOk, cancelInfo>>

\* a goroutine that returns without receiving from sem
ReleaseNothing(w) ==
  /\ pc[w] \in {"releaseErr", "releaseOk"}
  /\ pc' = [pc EXCEPT ![w] = "ret"]
  /\ UNCHANGED <<cfg, act, start, blocks, config, ctxDone, egDone, egErr, mutex, failedBlocks,
                 sem, mainPc, idx, pass, result, n, err, block, ai, fetches, execLog,
                 execErrAt, twiceThenOk, cancelInfo>>

\* lines 95 and 112: <-sem takes one token out of the channel
Release(w) ==
  /\ pc[w] \in {"releaseErr", "releaseOk"}
  /\ sem > 0
  /\ sem' = sem - 1
  /\ pc' = [pc EXCEPT ![w] = "ret"]
  /\ UNCHANGED <<cfg, act, start, blocks, config, ctxDone, egDone, egErr, mutex, failedBlocks,
                 mainPc, idx, pass, result, n, err, block, ai, fetches, execLog,
                 execErrAt, twiceThenOk, cancelInfo>>

\* lines 96 and 113: the goroutine returns; errgroup keeps the first non-nil
\* error and cancels egCtx on it
Return(w) ==
  /\ pc[w] = "ret"
  /\ pc' = [pc EXCEPT ![w] = "done"]
  /\ execErrAt' = [execErrAt EXCEPT ![w] = 0]
  /\ IF err[w] # NoErr /\ egErr = NoErr
     THEN egErr' = err[w] /\ egDone' = TRUE
     ELSE UNCHANGED <<egErr, egDone>>
  /\ UNCHANGED <<cfg, act, start, blocks, config, ctxDone, mutex, failedBlocks, sem,
                 mainPc, idx, pass, result, n, err, block, ai, fetches, execLog,
                 twiceThenOk, cancelInfo>>

\* ---- the caller's context

Dispatched(w) == pc[w] \in {"releaseOk", "ret", "done"} /\ err[w] = NoErr
AllDispatched == pass = 1 /\ \A w \in Workers : Dispatched(w)
AllFetched == pass = 1 /\ \A w \in Workers : block[w] # 0

\* ctx is cancelled by the caller; egCtx is derived from it (line 60)
Cancel ==
  /\ ~ctxDone
  /\ mainPc # "returned"
  /\ ctxDone' = TRUE
  /\ egDone' = TRUE
  /\ cancelInfo' = IF AllDispatched THEN "late"
                   ELSE IF AllFetched THEN "executing" ELSE "fetching"
  /\ UNCHANGED <<cfg, act, start, blocks, config, egErr, mutex, failedBlocks, sem, mainPc, idx,
                 pass, result, worker, twiceThenOk>>

MainStep == Acquire \/ Go \/ Wait

WorkerStep(w) ==
  /\ w \in Workers
  /\ \/ RetryDo(w) \/ Attempt(w) \/ Backoff(w) \/ MutexLock(w) \/ AppendFailed(w)
     \/ Execute(w) \/ Release(w) \/ Return(w)

Next ==
  \/ Acquire
  \/ Go
  \/ Wait
  \/ Cancel
  \/ \E w \in Workers : RetryDo(w)
  \/ \E w \in Workers : Attempt(w)
  \/ \E w \in Workers : Backoff(w)
  \/ \E w \in Workers : MutexLock(w)
  \/ \E w \in Workers : AppendFailed(w)
  \/ \E w \in Workers : Execute(w)
  \/ \E w \in Workers : Release(w)
  \/ \E w \in Workers : Return(w)

Spec == Init /\ [][Next]_vars

\* Runnable goroutines are scheduled; the caller's cancellation is not forced.
FairSpec ==
  /\ Spec
  /\ WF_vars(MainStep)
  /\ \A w \in 1..MaxLen : WF_vars(WorkerStep(w))

\* The run when the caller never cancels ctx.
NextNoCancel ==
  \/ Acquire
  \/ Go
  \/ Wait
  \/ \E w \in Workers : RetryDo(w)
  \/ \E w \in Workers : Attempt(w)
  \/ \E w \in Workers : Backoff(w)
  \/ \E w \in Workers : MutexLock(w)
  \/ \E w \in Workers : AppendFailed(w)
  \/ \E w \in Workers : Execute(w)
  \/ \E w \in Workers : Release(w)
  \/ \E w \in Workers : Return(w)

NoCancelFairSpec ==
  /\ Init
  /\ [][NextNoCancel]_vars
  /\ WF_vars(MainStep)
  /\ \A w \in 1..MaxLen : WF_vars(WorkerStep(w))

\* ---- the start command (cmd/start.go, RunE)

\* a flag check that lets every value through
ConcurrentBlocksInvalidNever(c) == FALSE

\* line 37: concurrentBlocks < 1
ConcurrentBlocksInvalid(c) == c < 1

\* a registry whose default case returns an action as well
GetBlockActionByNameAny(name) == NoErr

\* cmd/actions.go: the error of GetBlockActionByName(name); nil for the one
\* registered name
GetBlockActionByName(name) ==
  IF name = BlockActionName THEN NoErr ELSE "noSuchAction"

Resolves(name) == GetBlockActionByName(name) = NoErr

\* lines 114-122: the names that resolve, in configuration order; a name that
\* does not resolve is logged and skipped
ResolveAll(names) == SelectSeq(names, Resolves)

\* a loop that runs up to endBlock, inclusive
BlockRangeInclusive(b, e) == [k \in 1..(IF e >= b THEN e - b + 1 ELSE 0) |-> b + k - 1]

\* lines 109-112: the heights beginBlock, ..., endBlock - 1
BlockRange(b, e) == [k \in 1..(IF e > b THEN e - b ELSE 0) |-> b + k - 1]

\* the runs the bounds of the model admit
InBounds(b, e, names) ==
  /\ Len(BlockRange(b, e)) <= MaxLen
  /\ Len(BlockRange(b, e)) * Len(ResolveAll(names)) <= MaxDispatch

\* the state when RunE starts: flags and configuration are read, ForEachBlock
\* has not been called
StartInit ==
  /\ startPc = "flags"
  /\ flagConcurrentBlocks \in 0..MaxConc
  /\ configActions \in SeqsUpTo({BlockActionName, UnregisteredName}, MaxActions)
  /\ beginBlock \in 1..MaxHeight
  /\ endBlock \in 0..(MaxHeight + 1)
  /\ endBlock # 0 => InBounds(beginBlock, endBlock, configActions)
  /\ runBlocks = <<>>
  /\ runActions = <<>>
  /\ runErr = "none"
  /\ migrateCalls = 0
  /\ ActIdle
  /\ CfgIdle
  /\ blocks = <<>>
  /\ actions = <<>>
  /\ concurrentBlocks = 0
  /\ ctxDone = FALSE
  /\ egDone = FALSE
  /\ egErr = NoErr
  /\ mutex = 0
  /\ failedBlocks = <<>>
  /\ sem = 0
  /\ mainPc = "notCalled"
  /\ idx = 0
  /\ pass = 0
  /\ result = "none"
  /\ pc = <<>>
  /\ n = <<>>
  /\ err = <<>>
  /\ block = <<>>
  /\ ai = <<>>
  /\ fetches = <<>>
  /\ execLog = <<>>
  /\ execErrAt = <<>>
  /\ twiceThenOk = FALSE
  /\ cancelInfo = "none"

engine == <<blocks, config, egDone, egErr, mutex, failedBlocks, sem, mainPc,
            idx, pass, result, worker>>

\* lines 33-39: the concurrent-blocks flag is read and checked
CheckConcurrentBlocks ==
  /\ startPc = "flags"
  /\ IF ConcurrentBlocksInvalid(flagConcurrentBlocks)
     THEN startPc' = "exit" /\ runErr' = FlagErr
     ELSE startPc' = "setup" /\ UNCHANGED runErr
  /\ UNCHANGED <<flagConcurrentBlocks, configActions, beginBlock, endBlock,
                 runBlocks, runActions, migrateCalls>>
  /\ UNCHANGED <<cfg, act, engine, ctxDone, twiceThenOk, cancelInfo>>

\* lines 41-89: chain config lookup, chain client, database connection,
\* indexer and debug server; each failure makes RunE return its error
Setup ==
  /\ startPc = "setup"
  /\ \E ok \in BOOLEAN :
       IF ok
       THEN startPc' = "range" /\ UNCHANGED runErr
       ELSE startPc' = "exit" /\ runErr' = SetupErr
  /\ UNCHANGED <<flagConcurrentBlocks, configActions, beginBlock, endBlock,
                 runBlocks, runActions, migrateCalls>>
  /\ UNCHANGED <<cfg, act, engine, ctxDone, twiceThenOk, cancelInfo>>

\* lines 91-112: an endBlock of 0 is replaced by the latest height of the
\* chain; the heights from beginBlock up to endBlock, exclusive, are built
BuildBlocks ==
  /\ startPc = "range"
  /\ \/ /\ endBlock # 0
        /\ runBlocks' = BlockRange(beginBlock, endBlock)
        /\ startPc' = "resolve"
        /\ UNCHANGED <<endBlock, runErr>>
     \/ /\ endBlock = 0
        /\ \E latest \in 1..(MaxHeight + 1) :
             /\ InBounds(beginBlock, latest, configActions)
             /\ endBlock' = latest
             /\ runBlocks' = BlockRange(beginBlock, latest)
        /\ startPc' = "resolve"
        /\ UNCHANGED runErr
     \/ /\ endBlock = 0
        /\ startPc' = "exit"
        /\ runErr' = LatestHeightErr
        /\ UNCHANGED <<endBlock, runBlocks>>
  /\ UNCHANGED <<flagConcurrentBlocks, configActions, beginBlock, runActions,
                 migrateCalls>>
  /\ UNCHANGED <<cfg, act, engine, ctxDone, twiceThenOk, cancelInfo>>

\* lines 114-122: every configured name is looked up
ResolveActions ==
  /\ startPc = "resolve"
  /\ runActions' = ResolveAll(configActions)
  /\ startPc' = "check"
  /\ UNCHANGED <<flagConcurrentBlocks, configActions, beginBlock, endBlock,
                 runBlocks, runErr, migrateCalls>>
  /\ UNCHANGED <<cfg, act, engine, ctxDone, twiceThenOk, cancelInfo>>

\* a check that accepts an empty action list
NoActionsNever(as) == FALSE

\* line 124: len(actions) == 0
NoActions(as) == Len(as) = 0

CheckActions ==
  /\ startPc = "check"
  /\ IF NoActions(runActions)
     THEN startPc' = "exit" /\ runErr' = NoActionsErr
     ELSE startPc' = "call" /\ UNCHANGED runErr
  /\ UNCHANGED <<flagConcurrentBlocks, configActions, beginBlock, endBlock,
                 runBlocks, runActions, migrateCalls>>
  /\ UNCHANGED <<cfg, act, engine, ctxDone, twiceThenOk, cancelInfo>>

\* line 129: i.ForEachBlock(ctx, blocks, actions, concurrentBlocks) is entered
CallForEachBlock ==
  /\ startPc = "call"
  /\ startPc' = "run"
  /\ actions' = [k \in 1..Len(runActions) |-> k]
  /\ concurrentBlocks' = flagConcurrentBlocks
  /\ pass' = 1
  /\ egDone' = ctxDone
  /\ PassStart(runBlocks)
  /\ UNCHANGED <<flagConcurrentBlocks, configActions, beginBlock, endBlock,
                 runBlocks, runActions, runErr, migrateCalls>>
  /\ UNCHANGED <<cfg, act, result, ctxDone, twiceThenOk, cancelInfo>>

\* lines 129-133: RunE returns what ForEachBlock returned
RunEReturn ==
  /\ startPc = "run"
  /\ mainPc = "returned"
  /\ startPc' = "exit"
  /\ runErr' = result
  /\ UNCHANGED <<flagConcurrentBlocks, configActions, beginBlock, endBlock,
                 runBlocks, runActions, migrateCalls>>
  /\ UNCHANGED <<cfg, act, engine, ctxDone, twiceThenOk, cancelInfo>>

StartNext ==
  \/ CheckConcurrentBlocks
  \/ Setup
  \/ BuildBlocks
  \/ ResolveActions
  \/ CheckActions
  \/ CallForEachBlock
  \/ RunEReturn
  \/ Next

\* ForEachBlock entered from RunE, or directly by another caller
StartSpec == (Init \/ StartInit) /\ [][StartNext]_vars

\* ---- one action: the registry lookup (cmd/actions.go) and Execute of the
\* ---- action it returns (indexer/actions/ibc/ibc.go)

\* the names the lookup is tried with: the registered one, the name of an
\* action that is not registered, and the empty name
LookupNames == {BlockActionName, UnregisteredName, ""}

\* a constructor that gives the action another name
NewIBCTransferNameOther == UnregisteredName

\* ibc.go:30-40: Name() of the action NewIBCTransfer returns
NewIBCTransferName == BlockActionName

\* what can happen to one transaction in IndexIBCTransfers: the decoder fails
\* (line 72), QueryTx fails (line 91), Hash.Set, Timestamp.Set or RawLog.Set
\* fails (lines 127, 138, 157), DB.Create fails or creates the record (line 171)
TxOutcomes ==
  {"decodeErr", "queryErr", "hashErr", "timestampErr", "rawLogErr", "createErr", "created"}

\* a record is written for a transaction that got as far as line 171 only
WritesRecord(o) == o = "created"

\* a loop that gives up the block when a transaction cannot be decoded
StopsOnDecodeError(o) == o = "decodeErr"

\* lines 72-169: every failure of a transaction ends in continue, none in return
StopsOn(o) == FALSE

\* the state before GetBlockActionByName is called
ActInit ==
  /\ actPc = "lookup"
  /\ lookupName \in LookupNames
  /\ lookupAction = "nil"
  /\ lookupErr = "none"
  /\ txCount \in 0..MaxTxs
  /\ txLog = <<>>
  /\ dbTxs = <<>>
  /\ actCtxDone = FALSE
  /\ actResult = "none"
  /\ CfgIdle
  /\ startPc = "direct"
  /\ flagConcurrentBlocks = 0
  /\ configActions = <<>>
  /\ beginBlock = 0
  /\ endBlock = 0
  /\ runBlocks = <<>>
  /\ runActions = <<>>
  /\ runErr = "none"
  /\ migrateCalls = 0
  /\ blocks = <<>>
  /\ actions = <<>>
  /\ concurrentBlocks = 0
  /\ ctxDone = FALSE
  /\ egDone = FALSE
  /\ egErr = NoErr
  /\ mutex = 0
  /\ failedBlocks = <<>>
  /\ sem = 0
  /\ mainPc = "notCalled"
  /\ idx = 0
  /\ pass = 0
  /\ result = "none"
  /\ pc = <<>>
  /\ n = <<>>
  /\ err = <<>>
  /\ block = <<>>
  /\ ai = <<>>
  /\ fetches = <<>>
  /\ execLog = <<>>
  /\ execErrAt = <<>>
  /\ twiceThenOk = FALSE
  /\ cancelInfo = "none"

\* cmd/actions.go:16-23: GetBlockActionByName(log, name); Execute is then
\* called on the action returned
LookupAction ==
  /\ actPc = "lookup"
  /\ lookupErr' = GetBlockActionByName(lookupName)
  /\ IF GetBlockActionByName(lookupName) = NoErr
     THEN lookupAction' = NewIBCTransferName /\ actPc' = "select"
     ELSE lookupAction' = "nil" /\ actPc' = "noAction"
  /\ UNCHANGED <<lookupName, txCount, txLog, dbTxs, actCtxDone, actResult>>
  /\ UNCHANGED <<cfg, start, engine, ctxDone, twiceThenOk, cancelInfo>>

\* a loop head that waits the 100 ms out without looking at ctx
TxSelectIgnoresCtx ==
  /\ actPc = "select"
  /\ IF Len(txLog) = txCount
     THEN actPc' = "returned" /\ actResult' = NoErr
     ELSE actPc' = "tx" /\ UNCHANGED actResult
  /\ UNCHANGED <<lookupName, lookupAction, lookupErr, txCount, txLog, dbTxs, actCtxDone>>
  /\ UNCHANGED <<cfg, start, engine, ctxDone, twiceThenOk, cancelInfo>>

\* ibc.go:61-69 and 179: the head of the loop over the transactions: return
\* nil after the last one; else the select returns ctx.Err() when ctx is done
\* and goes on to the transaction after the 100 ms otherwise
TxSelect ==
  /\ actPc = "select"
  /\ IF Len(txLog) = txCount
     THEN actPc' = "returned" /\ actResult' = NoErr
     ELSE IF actCtxDone
     THEN actPc' = "returned" /\ actResult' = CtxErr
     ELSE actPc' = "tx" /\ UNCHANGED actResult
  /\ UNCHANGED <<lookupName, lookupAction, lookupErr, txCount, txLog, dbTxs, actCtxDone>>
  /\ UNCHANGED <<cfg, start, engine, ctxDone, twiceThenOk, cancelInfo>>

\* ibc.go:71-177: one transaction is decoded, queried, turned into a Tx
\* model and written, or skipped at the first of these that fails
IndexTx ==
  /\ actPc = "tx"
  /\ \E o \in TxOutcomes :
       /\ txLog' = Append(txLog, o)
       /\ dbTxs' = IF WritesRecord(o) THEN Append(dbTxs, Len(txLog) + 1) ELSE dbTxs
       /\ IF StopsOn(o)
          THEN actPc' = "returned" /\ actResult' = o
          ELSE actPc' = "select" /\ UNCHANGED actResult
  /\ UNCHANGED <<lookupName, lookupAction, lookupErr, txCount, actCtxDone>>
  /\ UNCHANGED <<cfg, start, engine, ctxDone, twiceThenOk, cancelInfo>>

\* the ctx given to Execute is cancelled
CancelExecute ==
  /\ actPc \in {"select", "tx"}
  /\ ~actCtxDone
  /\ actCtxDone' = TRUE
  /\ UNCHANGED <<actPc, lookupName, lookupAction, lookupErr, txCount, txLog, dbTxs, actResult>>
  /\ UNCHANGED <<cfg, start, engine, ctxDone, twiceThenOk, cancelInfo>>

ActNext ==
  \/ LookupAction
  \/ TxSelect
  \/ IndexTx
  \/ CancelExecute

ActionSpec == ActInit /\ [][ActNext]_vars

\* an action's Execute on one block, and the engine that calls Execute on
\* the blocks of its heights
ExecuteNext ==
  \/ ActNext
  \/ mainPc # "notCalled" /\ Next

ExecuteSpec == (ActInit \/ Init) /\ [][ExecuteNext]_vars

\* ---- the chain configurations of the Config (cmd/config.go)

\* a chain config is its ChainID and the rest of its fields, here the RPC
\* address
ChainIDs == {"", "cosmoshub-4", "juno-1", "osmosis-1"}
RPCAddrs == {"rpc-a", "rpc-b"}
ChainClientConfigs == [ChainID : ChainIDs, RPCAddr : RPCAddrs]

EmptyIDErr == "chainConfig ID cannot be empty"
ExistsErr == "chainConfig already exists in config"
NotConfiguredErr == "chain is not configured"

\* config.go:234-242: the first entry whose ChainID is chainID, or an error
GetChainConfig(cs, chainID) ==
  IF \E i \in 1..Len(cs) : cs[i].ChainID = chainID
  THEN [chain |-> cs[CHOOSE i \in 1..Len(cs) :
                       /\ cs[i].ChainID = chainID
                       /\ \A j \in 1..(i - 1) : cs[j].ChainID # chainID],
        err |-> NoErr]
  ELSE [chain |-> NilChain, err |-> NotConfiguredErr]

\* an AddChainConfig that does not look the ChainID up
AddChainConfigNoLookup(cs, c) ==
  IF c.ChainID = ""
  THEN [configs |-> cs, err |-> EmptyIDErr]
  ELSE [configs |-> Append(cs, c), err |-> NoErr]

\* an AddChainConfig that puts the new config in front
AddChainConfigInFront(cs, c) ==
  IF c.ChainID = ""
  THEN [configs |-> cs, err |-> EmptyIDErr]
  ELSE IF GetChainConfig(cs, c.ChainID).chain # NilChain \/ GetChainConfig(cs, c.ChainID).err = NoErr
  THEN [configs |-> cs, err |-> ExistsErr]
  ELSE [configs |-> <<c>> \o cs, err |-> NoErr]

\* config.go:221-232: the ChainConfigs after the call and the error returned
AddChainConfig(cs, c) ==
  IF c.ChainID = ""
  THEN [configs |-> cs, err |-> EmptyIDErr]
  ELSE IF GetChainConfig(cs, c.ChainID).chain # NilChain \/ GetChainConfig(cs, c.ChainID).err = NoErr
  THEN [configs |-> cs, err |-> ExistsErr]
  ELSE [configs |-> Append(cs, c), err |-> NoErr]

\* the Config as it was read from the configuration file
CfgInit ==
  /\ chainConfigs \in SeqsUpTo(ChainClientConfigs, MaxChains)
  /\ cfgOp = "none"
  /\ cfgArg = "none"
  /\ cfgErr = "none"
  /\ cfgRet = NilChain
  /\ ActIdle
  /\ startPc = "direct"
  /\ flagConcurrentBlocks = 0
  /\ configActions = <<>>
  /\ beginBlock = 0
  /\ endBlock = 0
  /\ runBlocks = <<>>
  /\ runActions = <<>>
  /\ runErr = "none"
  /\ migrateCalls = 0
  /\ blocks = <<>>
  /\ actions = <<>>
  /\ concurrentBlocks = 0
  /\ ctxDone = FALSE
  /\ egDone = FALSE
  /\ egErr = NoErr
  /\ mutex = 0
  /\ failedBlocks = <<>>
  /\ sem = 0
  /\ mainPc = "notCalled"
  /\ idx = 0
  /\ pass = 0
  /\ result = "none"
  /\ pc = <<>>
  /\ n = <<>>
  /\ err = <<>>
  /\ block = <<>>
  /\ ai = <<>>
  /\ fetches = <<>>
  /\ execLog = <<>>
  /\ execErrAt = <<>>
  /\ twiceThenOk = FALSE
  /\ cancelInfo = "none"

\* a call of c.AddChainConfig(chainConfig)
CallAddChainConfig ==
  /\ cfgOp # "idle"
  /\ \E c \in ChainClientConfigs :
       /\ Len(AddChainConfig(chainConfigs, c).configs) <= MaxChains
       /\ cfgOp' = "add"
       /\ cfgArg' = c
       /\ chainConfigs' = AddChainConfig(chainConfigs, c).configs
       /\ cfgErr' = AddChainConfig(chainConfigs, c).err
       /\ cfgRet' = NilChain
  /\ UNCHANGED <<act, start, engine, ctxDone, twiceThenOk, cancelInfo>>

\* a call of c.GetChainConfig(chainID)
CallGetChainConfig ==
  /\ cfgOp # "idle"
  /\ \E id \in ChainIDs :
       /\ cfgOp' = "get"
       /\ cfgArg' = id
       /\ cfgRet' = GetChainConfig(chainConfigs, id).chain
       /\ cfgErr' = GetChainConfig(chainConfigs, id).err
  /\ UNCHANGED chainConfigs
  /\ UNCHANGED <<act, start, engine, ctxDone, twiceThenOk, cancelInfo>>

CfgNext ==
  \/ CallAddChainConfig
  \/ CallGetChainConfig

ConfigSpec == CfgInit /\ [][CfgNext]_vars

\* ---- vocabulary of the properties

Returned == mainPc = "returned"

\* workers launched that have not yet taken their token back out of sem
InFlight == {w \in Workers : pc[w] \notin {"idle", "ret", "done"}}

\* worker w's block query failed RtyAttNum times in this pass
Exhausted(w) == fetches[w] >= RtyAttNum

\* worker w has appended its height to failedBlocks
Appended(w) == pc[w] \in {"deferLock", "releaseErr"} \/ (pc[w] \in {"ret", "done"} /\ err[w] # NoErr)

IsPrefix(s, t) == Len(s) <= Len(t) /\ \A i \in 1..Len(s) : s[i] = t[i]

\* the run is one of the start command
ViaStart == startPc # "direct"

\* ForEachBlock has been entered
EngineCalled == mainPc # "notCalled"

\* the positions of the configured names that are the registered name
Registered == {i \in DOMAIN configActions : configActions[i] = BlockActionName}

\* RunE returned before it called ForEachBlock
EarlyErrors == {FlagErr, SetupErr, LatestHeightErr, NoActionsErr}

\* ---- C1
\* C1: bounded parallelism: for every concurrency budget c >= 1 and every
\* heights list, the number of workers launched that have not yet released
\* their slot is at most c in every reachable state.
C1_BoundedParallelism ==
  concurrentBlocks >= 1 => Cardinality(InFlight) <= concurrentBlocks

\* more heights than slots, every slot taken, the launch loop waiting for one
C1_Witness ==
  /\ concurrentBlocks >= 1
  /\ Len(blocks) > concurrentBlocks
  /\ Cardinality(InFlight) = concurrentBlocks
  /\ mainPc = "acquire"
  /\ idx < Len(blocks)

\* ---- C2
\* the run returned nil in its first pass with every action executed once, in
\* registration order, for every height
C2_Converged ==
  /\ Returned
  /\ result = NoErr
  /\ pass = 1
  /\ \A w \in Workers : execLog[w] = actions

\* C2: failure convergence inside the retry budget: with no cancellation and a
\* concurrency of at least 1, if no height's fetch fails RtyAttNum times,
\* ForEachBlock eventually returns nil with every height dispatched to every
\* action exactly once, in order.
C2_FailureConvergence ==
  concurrentBlocks >= 1 => <>((\E w \in Workers : Exhausted(w)) \/ C2_Converged)

\* two heights, one of which failed exactly twice before its fetch succeeded
C2_Witness ==
  /\ C2_Converged
  /\ Len(blocks) = 2
  /\ NA >= 1
  /\ twiceThenOk

\* ---- C3
\* C3: recursive drain: once a height has failed all its RtyAttNum attempts
\* (and ctx is not cancelled), the pass ends and a new pass over the Failure
\* Set eventually starts.
C3_RecursiveDrain ==
  ((\E w \in Workers : Exhausted(w)) /\ ~ctxDone) ~> (pass >= 2 \/ ctxDone)

C5_CancellationPropagation ==
  (ctxDone /\ \E w \in Workers : pc[w] = "backoff") ~> (Returned /\ result # NoErr)

\* ---- C6
\* C6: no partial success after cancellation: when ctx was cancelled while
\* every height was fetched and some worker was still executing actions,
\* ForEachBlock does not return nil.
C6_NoPartialSuccess ==
  (Returned /\ cancelInfo = "executing") => result # NoErr

\* ---- C7
\* C7: failure-set lock discipline: no worker blocks forever on the mutex:
\* with ctx not cancelled, while some launched worker has not returned, some
\* worker can take a step.
C7_NoWorkerDeadlock ==
  (~ctxDone /\ \E w \in Workers : pc[w] \notin {"idle", "done"}) =>
    ENABLED (\E w \in Workers : WorkerStep(w))

\* ---- C8
\* C8: action failure isolation: a worker whose fetch succeeded executes every
\* action, in order, whatever the earlier Execute calls returned, returns nil
\* to the group, and a run in which every fetch succeeded returns nil.
C8_ActionFailureIsolation ==
  /\ \A w \in Workers :
       block[w] # 0 =>
         /\ err[w] = NoErr
         /\ pc[w] \in {"exec", "releaseOk", "ret", "done"}
         /\ pc[w] = "exec" => (ai[w] <= NA /\ Len(execLog[w]) = ai[w] - 1)
         /\ pc[w] # "exec" => execLog[w] = actions
         /\ execErrAt[w] <= Len(execLog[w])
  /\ (Returned /\ \A w \in Workers : block[w] # 0) => result = NoErr

\* the first action failed for one height, the second still ran for it and
\* the worker is returning nil; the other height was processed
C8_Witness ==
  /\ ~ctxDone
  /\ NA >= 2
  /\ \E v, w \in Workers :
       /\ pc[v] = "ret" /\ execErrAt[v] = 1 /\ execLog[v] = actions
       /\ pc[w] = "done" /\ execLog[w] = actions

\* ---- C9
\* C9: action order determinism: in every state, the Execute calls a worker
\* has made for its block are the first actions of the list, in registration
\* order, one call per action.
C9_ActionOrder ==
  \A w \in Workers :
    /\ IsPrefix(execLog[w], actions)
    /\ Len(execLog[w]) > 0 => block[w] # 0

\* one worker has run every action while another is between two actions
C9_Witness ==
  /\ NA >= 2
  /\ \E v, w \in Workers :
       /\ v # w
       /\ execLog[v] = actions
       /\ pc[w] = "exec"
       /\ Len(execLog[w]) = 1

\* ---- C10
\* C10: retry exhaustion: a height is never fetched more than RtyAttNum times
\* in a pass, and with no cancellation a height is on the failure branch only
\* after exactly RtyAttNum failed fetches.
C10_RetryExhaustion ==
  \A w \in Workers :
    /\ fetches[w] <= RtyAttNum
    /\ (~ctxDone /\ (Appended(w) \/ pc[w] \in {"lock", "append"})) =>
         (fetches[w] = RtyAttNum /\ block[w] = 0 /\ err[w] = FetchErr)

\* a height is in the Failure Set after its fifth failed fetch
C10_Witness ==
  /\ ~ctxDone
  /\ \E w \in Workers :
       /\ Appended(w)
       /\ fetches[w] = RtyAttNum
       /\ \E i \in 1..Len(failedBlocks) : failedBlocks[i] = blocks[w]

\* ---- C11
\* C11: Failure Set entry invariant: in every reachable state, every height in
\* the pass's Failure Set has had RtyAttNum failed fetches in that pass, also
\* when ctx is cancelled while the height is mid-retry.
C11_FailureSetEntry ==
  \A w \in Workers : Appended(w) => fetches[w] = RtyAttNum

\* ---- C12
\* C12: only fetch failures populate the Failure Set: a worker whose fetch
\* succeeded never enters the failure branch, whatever its Execute calls
\* return, and every entry of failedBlocks is the height of a worker whose
\* retry.Do returned an error.
C12_OnlyFetchFailures ==
  /\ \A w \in Workers :
       block[w] # 0 => (~Appended(w) /\ pc[w] \notin {"lock", "append"})
  /\ \A i \in 1..Len(failedBlocks) :
       \E w \in Workers :
         blocks[w] = failedBlocks[i] /\ block[w] = 0 /\ err[w] # NoErr

\* one height was fetched and an Execute call failed for it; the Failure Set
\* holds only the other height, whose fetches failed
C12_Witness ==
  \E v, w \in Workers :
    /\ blocks[v] # blocks[w]
    /\ block[v] # 0 /\ execErrAt[v] > 0 /\ pc[v] = "ret"
    /\ block[w] = 0 /\ Appended(w)
    /\ failedBlocks = <<blocks[w]>>

\* ---- C13
\* C13: schema preparation precedes indexing: when the start command has
\* entered ForEachBlock, MigrateSchema has been called exactly once for every
\* action of the run.
C13_SchemaBeforeIndexing ==
  (ViaStart /\ EngineCalled) => migrateCalls = Len(runActions)

\* ---- C14
\* C14 as stated: an unknown action name is fatal: when some configured name
\* does not resolve, the start command never enters ForEachBlock.
C14_UnknownNameFatal ==
  (ViaStart /\ Cardinality(Registered) < Len(configActions)) => ~EngineCalled

\* C14: an unknown action name is skipped: the actions of the run are the
\* configured names that resolve, the engine runs with one action per
\* resolving name, and the no-actions error is returned only when no
\* configured name resolves.
C14_UnknownNameSkipped ==
  ViaStart =>
    /\ \A k \in DOMAIN runActions : runActions[k] = BlockActionName
    /\ startPc \in {"check", "call", "run"} => Len(runActions) = Cardinality(Registered)
    /\ EngineCalled => (NA = Cardinality(Registered) /\ NA >= 1)
    /\ runErr = NoActionsErr => Registered = {}

\* the engine fetched a block in a run configured with an unknown name and a
\* registered one
C14_Witness ==
  /\ startPc = "run"
  /\ \E i, j \in DOMAIN configActions :
       configActions[i] = UnregisteredName /\ configActions[j] = BlockActionName
  /\ \E w \in Workers : block[w] # 0

\* ---- C15
\* C15: no action configured: when no configured name resolves, the start
\* command never enters ForEachBlock and returns an error.
C15_NoActionConfigured ==
  (ViaStart /\ Registered = {}) =>
    /\ ~EngineCalled
    /\ startPc \notin {"call", "run"}
    /\ runActions = <<>>
    /\ startPc = "exit" => runErr \in EarlyErrors

\* RunE returned the no-actions error for a configuration whose names do not
\* resolve, with a valid flag and heights to index
C15_Witness ==
  /\ startPc = "exit"
  /\ runErr = NoActionsErr
  /\ Len(configActions) >= 1
  /\ Len(runBlocks) >= 1
  /\ ~EngineCalled

\* ---- C16
\* C16 as stated: the engine validates the concurrency: ForEachBlock entered
\* with concurrentBlocks = 0 has returned an error, or is about to.
C16_EngineValidates ==
  (EngineCalled /\ concurrentBlocks = 0) =>
    ((Returned /\ result # NoErr) \/ (~Returned /\ ENABLED MainStep))

\* C16: the start command validates the concurrency: with a flag below 1
\* RunE returns the flag error without entering ForEachBlock, so no slot is
\* acquired, no worker launched and no block fetched; ForEachBlock is entered
\* from RunE only with concurrentBlocks >= 1.
C16_StartValidates ==
  ViaStart =>
    /\ flagConcurrentBlocks < 1 =>
         /\ startPc \in {"flags", "exit"}
         /\ ~EngineCalled /\ sem = 0 /\ idx = 0 /\ Workers = {}
         /\ startPc = "exit" => runErr = FlagErr
    /\ EngineCalled => concurrentBlocks >= 1
    /\ runErr = FlagErr => flagConcurrentBlocks < 1

\* RunE returned the flag error for a run that had heights and an action
C16_Witness ==
  /\ startPc = "exit"
  /\ runErr = FlagErr
  /\ flagConcurrentBlocks = 0
  /\ Registered # {}
  /\ endBlock > beginBlock
  /\ ~EngineCalled

\* ---- C17
\* C17: passes do not overlap: at the step in which ForEachBlock returns or
\* starts the recursive pass, every worker the pass launched has returned.
C17_PassesDoNotOverlap ==
  [][((mainPc # "returned" /\ mainPc' = "returned") \/ pass' > pass) =>
       (idx = Len(blocks) /\ \A w \in Workers : pc[w] = "done")]_vars

\* ForEachBlock returned after two workers ran
C17_Witness ==
  /\ Returned
  /\ Len(blocks) >= 2
  /\ concurrentBlocks >= 2
  /\ \A w \in Workers : pc[w] = "done"

\* ---- C18
\* C18: slot release on every outcome: a slot that is taken is eventually
\* released: whenever sem holds a token, eventually it holds none.
C18_SlotRelease ==
  (sem > 0) ~> (sem = 0)

\* ---- C19
\* C19: unbounded recursive retry: with no cancellation, once a height has
\* failed all its RtyAttNum attempts, a further pass starts and fetches it
\* again.
C19_RecursiveRetry ==
  (\E w \in Workers : Exhausted(w)) ~> (pass >= 2 /\ \E w \in Workers : fetches[w] >= 1)

\* ---- C20
\* C20: fatal abort: when a worker has returned an error to the errgroup, the
\* step in which eg.Wait returns makes ForEachBlock return that first error
\* and starts no recursive pass, whatever failedBlocks holds.
C20_FatalAbort ==
  [][(egErr # NoErr /\ mainPc = "wait" /\ mainPc' # "wait") =>
       (mainPc' = "returned" /\ result' = egErr /\ pass' = pass)]_vars

\* no worker ever returns an error to the errgroup: the worker of every failed
\* retry.Do stays at the deferred mutex.Lock() of line 91
C20_NoWorkerError ==
  /\ egErr = NoErr
  /\ \A w \in Workers : err[w] # NoErr => pc[w] \in {"lock", "append", "deferLock"}

\* ---- C21
\* C21: duplicates are processed independently: every occurrence of a height
\* in the list has a worker of its own, which reaches the action loop only
\* through a successful block query of its own and spends at most RtyAttNum
\* queries; when ForEachBlock returns nil, every occurrence has been fetched
\* and dispatched to every action.
C21_DuplicatesIndependent ==
  /\ DOMAIN pc = 1..Len(blocks)
  /\ \A i \in 1..Len(blocks) :
       /\ fetches[i] <= RtyAttNum
       /\ block[i] # 0 => block[i] = blocks[i]
       /\ block[i] = 0 => (execLog[i] = <<>> /\ pc[i] \notin {"exec", "releaseOk"})
  /\ (Returned /\ result = NoErr) =>
       \A i \in 1..Len(blocks) : block[i] = blocks[i] /\ execLog[i] = actions

\* a height listed twice: ForEachBlock returned nil with both occurrences
\* dispatched, after a block query that had failed twice succeeded
C21_Witness ==
  /\ Len(blocks) = 2
  /\ blocks[1] = blocks[2]
  /\ NA >= 1
  /\ Returned
  /\ result = NoErr
  /\ twiceThenOk
  /\ \A i \in 1..2 : execLog[i] = actions

\* ---- C22
\* C22: height range: the heights RunE builds and hands to ForEachBlock are
\* beginBlock, beginBlock + 1, ..., endBlock - 1 in ascending order, where
\* endBlock is the latest height of the chain when the flag is 0; the list is
\* empty when beginBlock >= endBlock.
C22_HeightRange ==
  (ViaStart /\ startPc \in {"resolve", "check", "call", "run"}) =>
    /\ endBlock # 0
    /\ Len(runBlocks) = (IF beginBlock >= endBlock THEN 0 ELSE endBlock - beginBlock)
    /\ \A k \in 1..Len(runBlocks) : runBlocks[k] = beginBlock + k - 1
    /\ \A k \in 1..(Len(runBlocks) - 1) : runBlocks[k] < runBlocks[k + 1]
    /\ (startPc = "run" /\ pass = 1) => blocks = runBlocks

\* the engine runs on the two heights 1 and 2 of the range from 1 to 3
C22_Witness ==
  /\ startPc = "run"
  /\ beginBlock = 1
  /\ endBlock = 3
  /\ blocks = <<1, 2>>
  /\ \E w \in Workers : block[w] = 2

C24_ExactlyOnceDispatch ==
  /\ [](\A w \in Workers :
          block[w] # 0 =>
            /\ IsPrefix(execLog[w], actions)
            /\ pc[w] \in {"releaseOk", "ret", "done"} => execLog[w] = actions)
  /\ [][\A w \in Workers :
          (pass' = pass /\ block[w] # 0) =>
            /\ block'[w] = block[w]
            /\ fetches'[w] = fetches[w]
            /\ pc'[w] \notin {"retryDo", "attempt", "backoff", "lock"}
            /\ Len(execLog'[w]) <= Len(execLog[w]) + 1]_vars

\* the first of two actions failed for a block and both were executed once
C24_Witness ==
  /\ NA >= 2
  /\ \E w \in Workers :
       /\ pc[w] = "releaseOk"
       /\ execErrAt[w] = 1
       /\ execLog[w] = actions

\* ---- C25
\* C25: cancellation stops retries: a worker that is in the backoff delay
\* while egCtx is cancelled makes no further block query: its next step
\* leaves retry.Do with the context's error, before the attempts are used up.
C25_CancellationStopsRetries ==
  [][\A w \in Workers :
       (pc[w] = "backoff" /\ egDone) =>
         /\ pc'[w] \in {"backoff", "lock"}
         /\ fetches'[w] = fetches[w]
         /\ n'[w] = n[w]
         /\ pc'[w] = "lock" => (err'[w] = CtxErr /\ fetches[w] < RtyAttNum)]_vars

\* a worker left retry.Do with the context's error after three failed queries
C25_Witness ==
  /\ ctxDone
  /\ \E w \in Workers :
       /\ err[w] = CtxErr
       /\ fetches[w] = 3
       /\ pc[w] \in {"lock", "append", "deferLock"}

\* ---- C26
\* C26: double-lock hazard: a worker whose retry.Do failed stays on the failure
\* branch for ever: the one that locked the mutex appends its height and then
\* cannot take a step at the deferred mutex.Lock(), the mutex is never
\* unlocked, every other failed worker cannot take a step at the first
\* mutex.Lock() and appends nothing, the slot is not released and
\* ForEachBlock does not return.
C26_DoubleLock ==
  /\ \A w \in Workers :
       /\ err[w] # NoErr => pc[w] \in {"lock", "append", "deferLock"}
       /\ pc[w] = "deferLock" =>
            /\ mutex = w
            /\ failedBlocks = <<blocks[w]>>
            /\ ~ENABLED WorkerStep(w)
       /\ (pc[w] = "lock" /\ mutex # 0) => ~ENABLED WorkerStep(w)
  /\ mutex # 0 => (mutex \in Workers /\ pc[mutex] \in {"append", "deferLock"})
  /\ Len(failedBlocks) <= 1
  /\ (\E w \in Workers : err[w] # NoErr) => (~Returned /\ sem >= 1)

\* one failed worker is at the deferred Lock with its height appended, another
\* failed worker waits at the first Lock, and the launch loop is over
C26_Witness ==
  /\ ~ctxDone
  /\ mainPc = "wait"
  /\ \E v, w \in Workers :
       /\ v # w
       /\ pc[v] = "deferLock" /\ failedBlocks = <<blocks[v]>>
       /\ pc[w] = "lock" /\ err[w] = FetchErr

\* ---- C29
\* C29: the recursive call is never taken: there is no second pass; whenever
\* eg.Wait is about to return nil, or ForEachBlock returned nil, failedBlocks
\* is empty; a worker that appended has not returned, or the group holds an
\* error.
C29_NoRecursion ==
  /\ pass <= 1
  /\ (mainPc = "wait" /\ AllWorkersReturned /\ egErr = NoErr) => failedBlocks = <<>>
  /\ (Returned /\ result = NoErr) => failedBlocks = <<>>
  /\ \A w \in Workers : Appended(w) => (pc[w] # "done" \/ egErr # NoErr)

\* eg.Wait is about to return nil after two workers returned, one of them
\* after failed block queries
C29_Witness ==
  /\ mainPc = "wait"
  /\ Len(blocks) = 2
  /\ AllWorkersReturned
  /\ egErr = NoErr
  /\ twiceThenOk

\* ---- C30
\* C30: ForEachBlock called with concurrentBlocks = 0 and a non-empty heights
\* list stays at the first send on sem: the supervising goroutine cannot take
\* a step, no worker is launched, no block is queried and nothing is returned.
C30_ZeroConcurrencyBlocks ==
  (EngineCalled /\ concurrentBlocks = 0 /\ Len(blocks) > 0) =>
    /\ mainPc = "acquire"
    /\ ~ENABLED MainStep
    /\ idx = 0
    /\ sem = 0
    /\ result = "none"
    /\ \A w \in Workers : pc[w] = "idle" /\ fetches[w] = 0 /\ block[w] = 0

\* the call is still at the first send after ctx was cancelled
C30_Witness ==
  /\ concurrentBlocks = 0
  /\ Len(blocks) = 2
  /\ mainPc = "acquire"
  /\ ctxDone

\* ---- C27
\* C27: skip-and-continue inside the action: the Tx records written are those
\* of the transactions that got through decoding, the result query and the
\* model fields, in order; a transaction that failed one of these has no
\* record and the loop went on; Execute returns a non-nil error only when ctx
\* is cancelled, and returns nil only after it visited every transaction.
C27_SkipAndContinue ==
  /\ Len(txLog) <= txCount
  /\ \A k \in 1..Len(dbTxs) :
       /\ dbTxs[k] \in 1..Len(txLog)
       /\ txLog[dbTxs[k]] = "created"
       /\ k > 1 => dbTxs[k - 1] < dbTxs[k]
  /\ \A i \in 1..Len(txLog) :
       txLog[i] = "created" => \E k \in 1..Len(dbTxs) : dbTxs[k] = i
  /\ actPc = "returned" =>
       /\ actResult \in {NoErr, CtxErr}
       /\ actResult = CtxErr => (actCtxDone /\ Len(txLog) < txCount)
       /\ actResult = NoErr => Len(txLog) = txCount

\* Execute returned nil for a block of three transactions: the first could
\* not be decoded, the result query of the second failed, the third was
\* written
C27_Witness ==
  /\ actPc = "returned"
  /\ actResult = NoErr
  /\ txLog = <<"decodeErr", "queryErr", "created">>
  /\ dbTxs = <<3>>

\* ---- C28
\* C28: action registry lookup: GetBlockActionByName returns an action with a
\* nil error only for a name that is non-empty and equal to the Name() of the
\* action returned; for every other name it returns no action and an error.
C28_RegistryLookup ==
  actPc \notin {"idle", "lookup"} =>
    /\ lookupErr = NoErr =>
         (lookupAction # "nil" /\ lookupAction = lookupName /\ lookupName # "")
    /\ lookupErr # NoErr => (lookupAction = "nil" /\ actPc = "noAction")
    /\ lookupName # BlockActionName => (lookupErr # NoErr /\ lookupAction = "nil")

\* the lookup of the registered name returned the action of that name
C28_Witness ==
  /\ actPc = "select"
  /\ lookupName = BlockActionName
  /\ lookupAction = lookupName
  /\ lookupErr = NoErr

\* ---- C36
\* the ChainIDs of the chain configs are non-empty and pairwise distinct
WellFormed(cs) ==
  /\ \A i \in 1..Len(cs) : cs[i].ChainID # ""
  /\ \A i, j \in 1..Len(cs) : i # j => cs[i].ChainID # cs[j].ChainID

\* C36: chain-ID uniqueness: from a Config whose ChainConfigs have pairwise
\* distinct, non-empty ChainIDs, no call of AddChainConfig leads to one that
\* has an empty or a repeated ChainID, and GetChainConfig(id) on such a
\* Config returns the one entry of that ID with a nil error, or no entry and
\* an error when no entry has that ID.
C36_ChainIDUnique ==
  [][WellFormed(chainConfigs) =>
       /\ WellFormed(chainConfigs')
       /\ cfgOp' = "get" =>
            IF \E i \in 1..Len(chainConfigs') : chainConfigs'[i].ChainID = cfgArg'
            THEN /\ cfgErr' = NoErr
                 /\ \E i \in 1..Len(chainConfigs') :
                      /\ cfgRet' = chainConfigs'[i]
                      /\ chainConfigs'[i].ChainID = cfgArg'
                      /\ \A j \in 1..Len(chainConfigs') :
                           chainConfigs'[j].ChainID = cfgArg' => j = i
            ELSE /\ cfgErr' # NoErr
                 /\ cfgRet' = NilChain]_vars

\* AddChainConfig has appended a second chain config, of another ChainID, to
\* a Config of distinct and non-empty ChainIDs
C36_Witness ==
  /\ cfgOp = "add"
  /\ cfgErr = NoErr
  /\ Len(chainConfigs) = 2
  /\ chainConfigs[2] = cfgArg
  /\ WellFormed(chainConfigs)

\* ---- C37
\* C37: AddChainConfig leaves the configuration unchanged on error: called
\* with a chain config of an empty ChainID, or of a ChainID some entry
\* already has, it returns a non-nil error and ChainConfigs is as before the
\* call; otherwise it returns nil and ChainConfigs is the list of before with
\* the new config appended at the end.
C37_AddFrame ==
  [][cfgOp' = "add" =>
       IF \/ cfgArg'.ChainID = ""
          \/ \E i \in 1..Len(chainConfigs) : chainConfigs[i].ChainID = cfgArg'.ChainID
       THEN /\ cfgErr' # NoErr
            /\ chainConfigs' = chainConfigs
       ELSE /\ cfgErr' = NoErr
            /\ chainConfigs' = Append(chainConfigs, cfgArg')]_vars

\* AddChainConfig has refused a chain config whose ChainID the second of two
\* entries has, and the entries are the two of before
C37_Witness ==
  /\ cfgOp = "add"
  /\ cfgErr = ExistsErr
  /\ Len(chainConfigs) = 2
  /\ chainConfigs[2].ChainID = cfgArg.ChainID
  /\ chainConfigs[2] # cfgArg
  /\ chainConfigs[1].ChainID # cfgArg.ChainID

\* ---- C31
\* C31: with an empty heights list ForEachBlock returns nil at once, whatever
\* the actions, the concurrency and the state of the context: no slot is
\* taken, no goroutine is started, so no block is fetched and no action
\* invoked, nothing enters the Failure Set, the group has no error, Wait does
\* not block, there is no second pass, and the result is nil.
C31_EmptyHeights ==
  (EngineCalled /\ pass = 1 /\ Len(blocks) = 0) =>
    /\ mainPc \in {"wait", "returned"}
    /\ Workers = {}
    /\ DOMAIN fetches = {}
    /\ DOMAIN execLog = {}
    /\ sem = 0
    /\ idx = 0
    /\ failedBlocks = <<>>
    /\ egErr = NoErr
    /\ mainPc = "wait" => AllWorkersReturned
    /\ Returned => result = NoErr

\* ForEachBlock returned nil for no heights, two actions, a concurrency of 0
\* and a cancelled context
C31_Witness ==
  /\ Returned
  /\ pass = 1
  /\ blocks = <<>>
  /\ result = NoErr
  /\ concurrentBlocks = 0
  /\ NA = 2
  /\ ctxDone

\* ---- C32
\* the goroutines of this pass that eg.Go has started
Launched == {w \in Workers : pc[w] # "idle"}

\* the goroutines of this pass that have received from sem
Released == {w \in Workers : pc[w] \in {"ret", "done"}}

\* C32 as stated: in every state of a pass the number of occupied slots is
\* the number of workers launched minus the number of workers that have
\* executed their release, it is between 0 and concurrentBlocks, and a
\* worker at its release finds a token in the semaphore.
C32_SlotAccountingAsStated ==
  EngineCalled =>
    /\ sem = Cardinality(Launched) - Cardinality(Released)
    /\ sem >= 0
    /\ sem <= concurrentBlocks
    /\ \A w \in Workers : pc[w] \in {"releaseErr", "releaseOk"} => sem > 0

\* C32: slot accounting: in every state of a pass the number of occupied
\* slots is the number of heights the launch loop has taken a slot for (the
\* workers launched, and the one the loop is about to launch once it holds
\* the slot) minus the number of workers that have executed their release;
\* it is between 0 and concurrentBlocks, and a worker at its release finds a
\* token in the semaphore, so a release never blocks.
C32_SlotAccounting ==
  EngineCalled =>
    /\ Cardinality(Launched) = idx
    /\ sem = idx + (IF mainPc = "go" THEN 1 ELSE 0) - Cardinality(Released)
    /\ sem >= 0
    /\ sem <= concurrentBlocks
    /\ \A w \in Workers : pc[w] \in {"releaseErr", "releaseOk"} => sem > 0

\* the loop holds the slot of the second height and has not started its
\* goroutine yet, the first goroutine is at its release: two slots are
\* occupied and one worker is launched
C32_Witness ==
  /\ mainPc = "go"
  /\ idx = 1
  /\ pc[1] = "releaseOk"
  /\ sem = 2
  /\ Cardinality(Launched) = 1
  /\ Released = {}

\* ---- C33
\* C33: the launch loop does not observe cancellation or worker errors: it
\* leaves the loop only after the last height, it advances only by taking a
\* slot, which it can do exactly when the semaphore has a free slot, whether
\* or not the context is cancelled or the group has an error; holding the
\* slot it starts the goroutine of the next height, and the goroutines
\* started are those of the first idx heights of the input.
C33_LaunchLoopBlind ==
  (EngineCalled /\ ~Returned) =>
    /\ Launched = 1..idx
    /\ mainPc \in {"acquire", "go"} => idx < Len(blocks)
    /\ mainPc = "wait" => idx = Len(blocks)
    /\ mainPc = "acquire" => ((ENABLED Acquire) <=> sem < concurrentBlocks)
    /\ mainPc = "go" => ENABLED Go

\* the context is cancelled, the first goroutine has failed on it and put
\* its height in the Failure Set, and the loop is at the second height with
\* a free slot
C33_Witness ==
  /\ ctxDone
  /\ egDone
  /\ Len(blocks) = 2
  /\ mainPc = "acquire"
  /\ idx = 1
  /\ err[1] = CtxErr
  /\ pc[1] = "deferLock"
  /\ sem < concurrentBlocks

\* ---- C34
\* the number of entries of the sequence s that are h
CountOf(s, h) == Cardinality({i \in 1..Len(s) : s[i] = h})

\* C34: no lost or duplicated Failure Set append: at most one goroutine is
\* between its mutex.Lock and the end of its append, that goroutine holds
\* the mutex, and in every state each height occurs in failedBlocks as many
\* times as there are goroutines of that height that have executed the
\* append of the fetch-failure path in this pass.
C34_AppendExclusive ==
  EngineCalled =>
    /\ Cardinality({w \in Workers : pc[w] = "append"}) <= 1
    /\ \A w \in Workers : pc[w] \in {"append", "deferLock"} => mutex = w
    /\ \A h \in {blocks[w] : w \in Workers} \cup {failedBlocks[i] : i \in DOMAIN failedBlocks} :
         CountOf(failedBlocks, h) =
           Cardinality({w \in Workers : Appended(w) /\ blocks[w] = h})
    /\ Len(failedBlocks) = Cardinality({w \in Workers : Appended(w)})

\* two goroutines of the same height have failed: the first has appended the
\* height and the second waits for the mutex
C34_Witness ==
  /\ Len(blocks) = 2
  /\ blocks[1] = blocks[2]
  /\ \E v, w \in Workers :
       /\ v # w
       /\ pc[v] = "deferLock"
       /\ pc[w] = "lock"
       /\ err[v] # NoErr
       /\ err[w] # NoErr
  /\ failedBlocks = <<blocks[1]>>

\* ---- C35
\* C35: cancellation inside an action is not escalated. In the action: when
\* ctx is already done at the head of the loop with a transaction left,
\* Execute returns ctx's error and neither that transaction nor a later one
\* is decoded, queried or written; nothing is visited or written after the
\* return. In the engine: whatever Execute returns, the goroutine goes on to
\* the next action, or to its release after the last one, its error stays
\* nil, the Failure Set and the group's error are untouched, and when it
\* returns it returns nil to the group.
C35_CancelNotEscalated ==
  [][/\ (actPc = "select" /\ actCtxDone /\ Len(txLog) < txCount) =>
          /\ actPc' = "returned"
          /\ actResult' = CtxErr
          /\ txLog' = txLog
          /\ dbTxs' = dbTxs
     /\ actPc = "returned" => (txLog' = txLog /\ dbTxs' = dbTxs /\ actResult' = actResult)
     /\ (actPc' = "returned" /\ actResult' = CtxErr) =>
          (actCtxDone' /\ Len(txLog') < txCount' /\ \A k \in 1..Len(dbTxs') : dbTxs'[k] <= Len(txLog'))
     /\ \A w \in Workers :
          /\ (pc[w] = "exec" /\ pc'[w] # "exec") => pc'[w] = "releaseOk"
          /\ (pc[w] = "exec" /\ execLog'[w] # execLog[w]) =>
               /\ execLog'[w] = Append(execLog[w], actions[ai[w]])
               /\ pc'[w] = (IF ai[w] < NA THEN "exec" ELSE "releaseOk")
               /\ err'[w] = NoErr
               /\ egErr' = egErr
               /\ egDone' = egDone
               /\ failedBlocks' = failedBlocks
          /\ (pc[w] = "releaseOk" /\ pc'[w] # "releaseOk") => (pc'[w] = "ret" /\ err'[w] = NoErr)
          /\ (pc[w] = "ret" /\ err[w] = NoErr /\ pc'[w] = "done") =>
               (egErr' = egErr /\ egDone' = egDone)
          /\ (execErrAt'[w] > 0) =>
               (err'[w] = NoErr /\ pc'[w] \in {"exec", "releaseOk", "ret"})]_vars

\* ctx was cancelled after the first of three transactions was written:
\* Execute returned ctx's error, and the two transactions left were not
\* visited
C35_Witness ==
  /\ actPc = "returned"
  /\ actCtxDone
  /\ actResult = CtxErr
  /\ txCount = 3
  /\ txLog = <<"created">>
  /\ dbTxs = <<1>>
====
